---------------------------- MODULE Spec2Model ----------------------------
(***************************************************************************)
(* Order-book reconciliation of src/binance.py: the price-level container  *)
(* Levels (a SortedDict keyed by price), the snapshot / partial-update     *)
(* records, and BinanceOrderBook with its update state machine and its     *)
(* ranked best-price queries.                                              *)
(*                                                                         *)
(* A Levels container is modelled by the item sequence of its SortedDict:  *)
(* the PriceLevel values in ascending key order.  Python's None is the     *)
(* empty sequence and an integer argument n is <<n>> where a parameter may *)
(* be None.  Prices and quantities are small naturals standing for floats. *)
(***************************************************************************)
EXTENDS Integers, Sequences, FiniteSets, TLC

\* ------------------------------------------------------------------ bounds
MaxPrice == 2      \* prices are 1..MaxPrice
MaxQty == 2        \* quantities are 0..MaxQty, 0 being the deletion marker
MaxId == 3         \* update ids are 0..MaxId
MaxLevels == 2     \* levels carried by one snapshot or update, both sides together
MaxArg == 3        \* query arguments i, n range over -MaxArg..MaxArg
MaxKey == 4        \* prices of the container on its own are 1..MaxKey
MaxEntries == 2    \* entries of one merge call on the container on its own
MaxBooks == 2      \* books the driver builds, with ids 1..MaxBooks
MaxUpdates == 2    \* updates the driver's stream carries
MaxDriverPrice == 1    \* prices in the driver's snapshots and updates
MaxDriverLevels == 1   \* levels in one of the driver's snapshots or updates

Prices == 1..MaxPrice
Quantities == 0..MaxQty
Ids == 0..MaxId
Args == (0 - MaxArg)..MaxArg

\* ------------------------------------------------------------- data model
PriceLevel == [price : Prices, quantity : Quantities]

NoLevel == [price |-> 0, quantity |-> 0]

RECURSIVE SeqsUpTo(_, _)
SeqsUpTo(S, n) ==
    IF n = 0 THEN {<<>>}
    ELSE LET shorter == SeqsUpTo(S, n - 1)
         IN  shorter \cup {Append(s, x) : s \in {t \in shorter : Len(t) = n - 1}, x \in S}

LevelLists == SeqsUpTo(PriceLevel, MaxLevels)

Sides == {bl \in LevelLists \X LevelLists : Len(bl[1]) + Len(bl[2]) <= MaxLevels}

\* Updates as the feed delivers them: first_update_id <= last_update_id.
IdSpans == {span \in Ids \X Ids : span[1] <= span[2]}

PartialUpdate ==
    {[bids |-> s[1], asks |-> s[2],
      first_update_id |-> span[1], last_update_id |-> span[2]] :
        s \in Sides, span \in IdSpans}

Snapshot ==
    {[bids |-> s[1], asks |-> s[2], last_update_id |-> l] : s \in Sides, l \in Ids}

\* ----------------------------------------------------------------- Levels
None == <<>>

contains(lv, p) == \E k \in 1..Len(lv) : lv[k].price = p

\* SortedDict.pop(key, None): drop the item stored under the key, if any.
pop(lv, p) == SelectSeq(lv, LAMBDA e : e.price # p)

\* Mutant of bisect: a new key always goes last, as in insertion order.
bisect_append(lv, p) == Len(lv)

\* SortedList.add: the position bisect_right gives the new key.
bisect(lv, p) == Cardinality({k \in 1..Len(lv) : lv[k].price <= p})

\* Mutant of setitem: the quantity under a known key is added to, not replaced.
setitem_accumulate(lv, p, level) ==
    IF contains(lv, p)
    THEN [k \in 1..Len(lv) |->
            IF lv[k].price = p
            THEN [price |-> p, quantity |-> lv[k].quantity + level.quantity]
            ELSE lv[k]]
    ELSE LET at == bisect(lv, p)
         IN  SubSeq(lv, 1, at) \o <<level>> \o SubSeq(lv, at + 1, Len(lv))

\* SortedDict.__setitem__: a new key goes into the sorted key list, a known
\* key keeps its place and has its value replaced.
setitem(lv, p, level) ==
    IF contains(lv, p)
    THEN [k \in 1..Len(lv) |-> IF lv[k].price = p THEN level ELSE lv[k]]
    ELSE LET at == bisect(lv, p)
         IN  SubSeq(lv, 1, at) \o <<level>> \o SubSeq(lv, at + 1, Len(lv))

\* Mutant of merge_one: a zero quantity is stored like any other.
merge_one_keep_zero(lv, level) == setitem(lv, level.price, level)

\* Mutant of merge_one: a zero quantity is ignored, nothing is removed.
merge_one_skip_zero(lv, level) ==
    IF level.quantity = 0 THEN lv ELSE setitem(lv, level.price, level)

\* The body of the loop of Levels.merge.
merge_one(lv, level) ==
    IF level.quantity = 0
    THEN pop(lv, level.price)
    ELSE setitem(lv, level.price, level)

\* Mutant of merge: the entries are applied last to first.
RECURSIVE merge_reversed(_, _)
merge_reversed(lv, levels) ==
    IF levels = <<>> THEN lv
    ELSE merge_one(merge_reversed(lv, Tail(levels)), Head(levels))

RECURSIVE merge(_, _)
merge(lv, levels) ==
    IF levels = <<>> THEN lv
    ELSE merge(merge_one(lv, Head(levels)), Tail(levels))

Reverse(s) == [k \in 1..Len(s) |-> s[Len(s) + 1 - k]]

\* slice(start, stop).indices(len) for step 1.
slice_index(x, len, default) ==
    IF x = None THEN default
    ELSE IF x[1] < 0 THEN (IF x[1] + len < 0 THEN 0 ELSE x[1] + len)
    ELSE IF x[1] > len THEN len
    ELSE x[1]

\* SortedDict.islice(start, stop, reverse) followed by the lookup of each key.
islice(lv, start, stop, reverse) ==
    LET from == slice_index(start, Len(lv), 0)
        to   == slice_index(stop, Len(lv), Len(lv))
        part == SubSeq(lv, from + 1, to)
    IN  IF reverse THEN Reverse(part) ELSE part

\* SortedDict.peekitem(index)[1]: Python indexing, IndexError when out of range.
peekitem(lv, index) ==
    LET at == IF index < 0 THEN index + Len(lv) ELSE index
    IN  IF at < 0 \/ at >= Len(lv)
        THEN [raised |-> "IndexError", value |-> NoLevel]
        ELSE [raised |-> "", value |-> lv[at + 1]]

\* Mutant of max: indexes from the low end, as min does.
max_from_bottom(lv, i) == peekitem(lv, i - 1)

max(lv, i) == peekitem(lv, 0 - i)

max_slice(lv, i, reverse) == islice(lv, <<0 - i>>, None, reverse)

min(lv, i) == peekitem(lv, i - 1)

min_slice(lv, i, reverse) == islice(lv, None, <<i>>, reverse)

\* ------------------------------------------------------- BinanceOrderBook
\* Mutant of new_book: both sides are filled from the snapshot's bids.
new_book_asks_from_bids(snapshot) ==
    [bids |-> merge(<<>>, snapshot.bids),
     asks |-> merge(<<>>, snapshot.bids),
     last_update_id |-> snapshot.last_update_id]

new_book(snapshot) ==
    [bids |-> merge(<<>>, snapshot.bids),
     asks |-> merge(<<>>, snapshot.asks),
     last_update_id |-> snapshot.last_update_id]

\* Mutant of is_stale: an update ending at last_update_id is taken for stale.
is_stale_inclusive(book, u) == u.last_update_id <= book.last_update_id

\* Mutant of is_stale: no update is ever taken for stale.
is_stale_never(book, u) == FALSE

is_stale(book, u) == u.last_update_id < book.last_update_id

\* Mutant of is_gap: the expected id is taken to be last_update_id itself.
is_gap_off_by_one(book, u) == u.first_update_id > book.last_update_id

is_gap(book, u) == u.first_update_id > book.last_update_id + 1

\* Mutant of update: the bids are merged before the gap check.
update_merge_before_gap(book, u) ==
    IF is_stale(book, u)
    THEN [ret |-> "False", book |-> book, expected |-> 0, received |-> 0]
    ELSE IF is_gap(book, u)
    THEN [ret |-> "RuntimeWarning",
          book |-> [book EXCEPT !.bids = merge(book.bids, u.bids)],
          expected |-> book.last_update_id + 1, received |-> u.first_update_id]
    ELSE [ret |-> "True",
          book |-> [bids |-> merge(book.bids, u.bids),
                    asks |-> merge(book.asks, u.asks),
                    last_update_id |-> u.last_update_id],
          expected |-> 0, received |-> 0]

\* Mutant of update: a stale update still has its levels merged.
update_merge_when_stale(book, u) ==
    IF is_stale(book, u)
    THEN [ret |-> "False",
          book |-> [book EXCEPT !.bids = merge(book.bids, u.bids),
                                !.asks = merge(book.asks, u.asks)],
          expected |-> 0, received |-> 0]
    ELSE IF is_gap(book, u)
    THEN [ret |-> "RuntimeWarning", book |-> book,
          expected |-> book.last_update_id + 1, received |-> u.first_update_id]
    ELSE [ret |-> "True",
          book |-> [bids |-> merge(book.bids, u.bids),
                    asks |-> merge(book.asks, u.asks),
                    last_update_id |-> u.last_update_id],
          expected |-> 0, received |-> 0]

\* Mutant of update: the warning names the two ids the wrong way round.
update_ids_swapped(book, u) ==
    IF is_stale(book, u)
    THEN [ret |-> "False", book |-> book, expected |-> 0, received |-> 0]
    ELSE IF is_gap(book, u)
    THEN [ret |-> "RuntimeWarning", book |-> book,
          expected |-> u.first_update_id, received |-> book.last_update_id + 1]
    ELSE [ret |-> "True",
          book |-> [bids |-> merge(book.bids, u.bids),
                    asks |-> merge(book.asks, u.asks),
                    last_update_id |-> u.last_update_id],
          expected |-> 0, received |-> 0]

\* Mutant of update: the book is left at the update's first id.
update_last_from_first(book, u) ==
    IF is_stale(book, u)
    THEN [ret |-> "False", book |-> book, expected |-> 0, received |-> 0]
    ELSE IF is_gap(book, u)
    THEN [ret |-> "RuntimeWarning", book |-> book,
          expected |-> book.last_update_id + 1, received |-> u.first_update_id]
    ELSE [ret |-> "True",
          book |-> [bids |-> merge(book.bids, u.bids),
                    asks |-> merge(book.asks, u.asks),
                    last_update_id |-> u.first_update_id],
          expected |-> 0, received |-> 0]

update(book, u) ==
    IF is_stale(book, u)
    THEN [ret |-> "False", book |-> book, expected |-> 0, received |-> 0]
    ELSE IF is_gap(book, u)
    THEN [ret |-> "RuntimeWarning", book |-> book,
          expected |-> book.last_update_id + 1, received |-> u.first_update_id]
    ELSE [ret |-> "True",
          book |-> [bids |-> merge(book.bids, u.bids),
                    asks |-> merge(book.asks, u.asks),
                    last_update_id |-> u.last_update_id],
          expected |-> 0, received |-> 0]

best_bid(book, i) == max(book.bids, i)

best_bids(book, n) == max_slice(book.bids, n, TRUE)

best_ask(book, i) == min(book.asks, i)

best_asks(book, n) == min_slice(book.asks, n, FALSE)

\* ----------------------------------------------------------------- driver
ExportDepth == 10

BookIds == 1..MaxBooks

DriverLevel == [price : 1..MaxDriverPrice, quantity : Quantities]

DriverLists == SeqsUpTo(DriverLevel, MaxDriverLevels)

DriverSides ==
    {bl \in DriverLists \X DriverLists : Len(bl[1]) + Len(bl[2]) <= MaxDriverLevels}

DriverUpdate ==
    {[bids |-> s[1], asks |-> s[2],
      first_update_id |-> span[1], last_update_id |-> span[2]] :
        s \in DriverSides, span \in IdSpans}

DriverSnapshot ==
    {[bids |-> s[1], asks |-> s[2], last_update_id |-> l] :
        s \in DriverSides, l \in Ids}

\* ExportData(): four lists that grow together.
NewExportData ==
    [bids10 |-> <<>>, asks10 |-> <<>>, bids10_size |-> <<>>, asks10_size |-> <<>>]

prices_of(s) == [k \in 1..Len(s) |-> s[k].price]

quantities_of(s) == [k \in 1..Len(s) |-> s[k].quantity]

\* ExportData.on_orderbook_update
export_append(data, book) ==
    LET best_bids10 == best_bids(book, ExportDepth)
        best_asks10 == best_asks(book, ExportDepth)
    IN  [bids10      |-> Append(data.bids10, prices_of(best_bids10)),
         bids10_size |-> Append(data.bids10_size, quantities_of(best_bids10)),
         asks10      |-> Append(data.asks10, prices_of(best_asks10)),
         asks10_size |-> Append(data.asks10_size, quantities_of(best_asks10))]

\* ExportData.__len__
export_len(data) == Len(data.bids10)

\* on_orderbook_update: the book's history is created on its first record.
on_orderbook_update(export, book_id, book) ==
    LET had == IF book_id \in DOMAIN export
               THEN export
               ELSE [b \in DOMAIN export \cup {book_id} |->
                        IF b = book_id THEN NewExportData ELSE export[b]]
    IN  [had EXCEPT ![book_id] = export_append(had[book_id], book)]

\* Mutant of route_one: the record is exported before the update is applied.
route_one_export_before(acc, book_id, u) ==
    LET book == acc.orderbooks[book_id]
        r    == update(book, u)
        seen == [b \in DOMAIN acc.outcomes \cup {book_id} |->
                    IF b = book_id
                    THEN [ret |-> r.ret, expected |-> r.expected,
                          received |-> r.received,
                          before |-> book.last_update_id]
                    ELSE acc.outcomes[b]]
    IN  IF r.ret = "True"
        THEN [acc EXCEPT !.orderbooks[book_id] = r.book,
                         !.export_data = on_orderbook_update(acc.export_data, book_id, book),
                         !.outcomes = seen]
        ELSE IF r.ret = "False"
        THEN [acc EXCEPT !.outcomes = seen]
        ELSE [acc EXCEPT !.to_delete = Append(acc.to_delete, book_id),
                         !.outcomes = seen]

\* The body of the first loop of apply_update_to_orderbooks, for one book.
\* acc holds the registry, the histories, orderbooks_to_delete and, for the
\* record, what update gave for each book.
route_one(acc, book_id, u) ==
    LET book == acc.orderbooks[book_id]
        r    == update(book, u)
        seen == [b \in DOMAIN acc.outcomes \cup {book_id} |->
                    IF b = book_id
                    THEN [ret |-> r.ret, expected |-> r.expected,
                          received |-> r.received,
                          before |-> book.last_update_id]
                    ELSE acc.outcomes[b]]
    IN  IF r.ret = "True"
        THEN [acc EXCEPT !.orderbooks[book_id] = r.book,
                         !.export_data = on_orderbook_update(acc.export_data, book_id, r.book),
                         !.outcomes = seen]
        ELSE IF r.ret = "False"
        THEN [acc EXCEPT !.outcomes = seen]
        ELSE [acc EXCEPT !.to_delete = Append(acc.to_delete, book_id),
                         !.outcomes = seen]

\* SortedDict.items(): the keys in ascending order.
RECURSIVE sorted_keys(_)
sorted_keys(S) ==
    IF S = {} THEN <<>>
    ELSE LET least == CHOOSE x \in S : \A y \in S : x <= y
         IN  <<least>> \o sorted_keys(S \ {least})

\* Mutant of route_all: the first gap ends the loop.
RECURSIVE route_all_stop_at_gap(_, _, _)
route_all_stop_at_gap(acc, ids, u) ==
    IF ids = <<>> \/ acc.to_delete # <<>> THEN acc
    ELSE route_all_stop_at_gap(route_one(acc, Head(ids), u), Tail(ids), u)

RECURSIVE route_all(_, _, _)
route_all(acc, ids, u) ==
    IF ids = <<>> THEN acc
    ELSE route_all(route_one(acc, Head(ids), u), Tail(ids), u)

\* Mutant of delete_books: no book is deleted.
delete_books_none(books, to_delete) == books

\* The second loop of apply_update_to_orderbooks: del orderbooks[book_id].
delete_books(books, to_delete) ==
    LET gone == {to_delete[k] : k \in 1..Len(to_delete)}
    IN  [b \in DOMAIN books \ gone |-> books[b]]

apply_update_to_orderbooks(export, books, u) ==
    LET acc == route_all([orderbooks |-> books, export_data |-> export,
                          to_delete |-> <<>>, outcomes |-> <<>>],
                         sorted_keys(DOMAIN books), u)
    IN  [orderbooks |-> delete_books(acc.orderbooks, acc.to_delete),
         export_data |-> acc.export_data,
         outcomes |-> acc.outcomes]

\* Mutant of advance: last_update_id is one attribute shared by all books.
advance_shared_id(books, book_id, u) ==
    LET r == update(books[book_id], u)
    IN  [b \in DOMAIN books |->
            IF b = book_id THEN r.book
            ELSE [books[b] EXCEPT !.last_update_id = r.book.last_update_id]]

\* One worker calling update on the book it owns; a gap leaves the book as
\* it was.
advance(books, book_id, u) ==
    [books EXCEPT ![book_id] = update(books[book_id], u).book]

\* ------------------------------------------------------------------ state
VARIABLES
    bids,             \* BinanceOrderBook.bids.levels
    asks,             \* BinanceOrderBook.asks.levels
    last_update_id,   \* BinanceOrderBook.last_update_id
    call,             \* the last call made on the book: its ids, what it gave,
                      \* and the book's last_update_id when it was made
    levels,           \* Levels.levels of a container used on its own
    merged,           \* the last merge call on that container: its entries and
                      \* the container's items when it was made
    stream,           \* the position of a contiguous update stream fed to the book
    orderbooks,       \* the driver's registry: book id -> BinanceOrderBook
    export_data,      \* the driver's export histories: book id -> ExportData
    routed,           \* the last update the driver routed and what each book gave
    processed         \* the number of updates the driver has routed

book_vars == <<bids, asks, last_update_id, call>>

levels_vars == <<levels, merged>>

driver_vars == <<orderbooks, export_data, routed, processed>>

vars == <<bids, asks, last_update_id, call, levels, merged, stream,
          orderbooks, export_data, routed, processed>>

self == [bids |-> bids, asks |-> asks, last_update_id |-> last_update_id]

NoCall ==
    [op |-> "", first |-> 0, last |-> 0, ret |-> "", before |-> 0,
     bids |-> <<>>, asks |-> <<>>]

NoMerge == [op |-> "", entries |-> <<>>, before |-> <<>>]

NoStream == [started |-> FALSE, next |-> 0, snapshot_id |-> 0, applied |-> FALSE]

NoRoute == [op |-> "", update |-> <<>>, outcomes |-> <<>>]

\* The other specifications' variables, at rest.
BookIdle ==
    /\ bids = <<>>
    /\ asks = <<>>
    /\ last_update_id = 0
    /\ call = NoCall

LevelsIdle == levels = <<>> /\ merged = NoMerge

StreamIdle == stream = NoStream

DriverIdle ==
    /\ orderbooks = <<>>
    /\ export_data = <<>>
    /\ routed = NoRoute
    /\ processed = 0

\* ---------------------------------------------- one book and its updates
\* BinanceOrderBook(snapshot); call keeps the snapshot's lists until the
\* first update call.
Construct(snapshot) ==
    LET book == new_book(snapshot)
    IN  /\ bids = book.bids
        /\ asks = book.asks
        /\ last_update_id = book.last_update_id
        /\ call = [op |-> "__init__", first |-> 0,
                   last |-> snapshot.last_update_id, ret |-> "",
                   before |-> 0,
                   bids |-> snapshot.bids, asks |-> snapshot.asks]

Init ==
    /\ \E snapshot \in Snapshot : Construct(snapshot)
    /\ LevelsIdle
    /\ StreamIdle
    /\ DriverIdle

\* self.update(u)
Apply(u) ==
    \E r \in {update(self, u)} :
        /\ bids' = r.book.bids
        /\ asks' = r.book.asks
        /\ last_update_id' = r.book.last_update_id
        /\ call' = [op |-> "update", first |-> u.first_update_id,
                    last |-> u.last_update_id, ret |-> r.ret,
                    before |-> last_update_id,
                    bids |-> <<>>, asks |-> <<>>]

Update(u) ==
    /\ Apply(u)
    /\ UNCHANGED <<levels_vars, stream, driver_vars>>

Next == \E u \in PartialUpdate : Update(u)

Spec == Init /\ [][Next]_vars

\* -------------------------------------------- one container and its merges
KeyLevel == [price : 1..MaxKey, quantity : Quantities]

EntryLists == SeqsUpTo(KeyLevel, MaxEntries)

InitLevels ==
    /\ LevelsIdle
    /\ BookIdle
    /\ StreamIdle
    /\ DriverIdle

Merge(entries) ==
    /\ levels' = merge(levels, entries)
    /\ merged' = [op |-> "merge", entries |-> entries, before |-> levels]
    /\ UNCHANGED <<book_vars, stream, driver_vars>>

NextLevels == \E entries \in EntryLists : Merge(entries)

SpecLevels == InitLevels /\ [][NextLevels]_vars

\* ------------------------------- one book fed a contiguous update stream
\* The feed's updates in order, each starting where the one before it ended;
\* the first starts no later than the id after the snapshot's.
InitStream ==
    /\ \E snapshot \in Snapshot :
        /\ Construct(snapshot)
        /\ stream = [started |-> FALSE, next |-> 0,
                     snapshot_id |-> snapshot.last_update_id, applied |-> FALSE]
    /\ LevelsIdle
    /\ DriverIdle

Feed(u) ==
    /\ IF stream.started
       THEN u.first_update_id = stream.next
       ELSE u.first_update_id <= stream.snapshot_id + 1
    /\ Apply(u)
    /\ stream' = [started |-> TRUE, next |-> u.last_update_id + 1,
                  snapshot_id |-> stream.snapshot_id,
                  applied |-> stream.applied \/ update(self, u).ret = "True"]
    /\ UNCHANGED <<levels_vars, driver_vars>>

NextStream == \E u \in PartialUpdate : Feed(u)

SpecStream == InitStream /\ [][NextStream]_vars

\* ------------------------------------------- the driver and its registry
\* build_orderbooks, then process_data_tar_gz's loop over the updates.
InitDriver ==
    /\ \E snapshots \in [BookIds -> DriverSnapshot] :
        orderbooks = [b \in BookIds |-> new_book(snapshots[b])]
    /\ export_data = <<>>
    /\ routed = NoRoute
    /\ processed = 0
    /\ BookIdle
    /\ LevelsIdle
    /\ StreamIdle

Route(u) ==
    /\ processed < MaxUpdates
    /\ \E r \in {apply_update_to_orderbooks(export_data, orderbooks, u)} :
           /\ orderbooks' = r.orderbooks
           /\ export_data' = r.export_data
           /\ routed' = [op |-> "route", update |-> u, outcomes |-> r.outcomes]
    /\ processed' = processed + 1
    /\ UNCHANGED <<book_vars, levels_vars, stream>>

NextDriver == \E u \in DriverUpdate : Route(u)

SpecDriver == InitDriver /\ [][NextDriver]_vars

\* ------------------------------------- books advanced by separate workers
InitBooks ==
    /\ \E snapshots \in [BookIds -> DriverSnapshot] :
        orderbooks = [b \in BookIds |-> new_book(snapshots[b])]
    /\ export_data = <<>>
    /\ routed = NoRoute
    /\ processed = 0
    /\ BookIdle
    /\ LevelsIdle
    /\ StreamIdle

Advance(book_id, u) ==
    /\ orderbooks' = advance(orderbooks, book_id, u)
    /\ routed' = [op |-> "advance", update |-> <<>>,
                  outcomes |-> [b \in {book_id} |->
                      [ret |-> "", expected |-> 0, received |-> 0, before |-> 0]]]
    /\ UNCHANGED <<export_data, processed, book_vars, levels_vars, stream>>

NextBooks == \E book_id \in BookIds, u \in DriverUpdate : Advance(book_id, u)

SpecBooks == InitBooks /\ [][NextBooks]_vars

\* ----------------------------------------------------------------- claims
ItemSet(lv) == {lv[k] : k \in 1..Len(lv)}

PriceSet(lv) == {lv[k].price : k \in 1..Len(lv)}

Min2(a, b) == IF a < b THEN a ELSE b

\* The entries of lv with exactly i - 1 entries priced above (below) them.
RankedFromTop(lv, i) ==
    {e \in ItemSet(lv) : Cardinality({f \in ItemSet(lv) : f.price > e.price}) = i - 1}

RankedFromBottom(lv, i) ==
    {e \in ItemSet(lv) : Cardinality({f \in ItemSet(lv) : f.price < e.price}) = i - 1}

StrictlyDescending(s) == \A k \in 1..(Len(s) - 1) : s[k].price > s[k + 1].price

StrictlyAscending(s) == \A k \in 1..(Len(s) - 1) : s[k].price < s[k + 1].price

\* C1: with U the book's last_update_id at the call, update gives exactly one
\* outcome, decided by the ids alone: False iff last < U, RuntimeWarning iff
\* last >= U and first > U + 1, True otherwise; first = U + 1 is applied,
\* first = U + 2 is a gap, last = U - 1 is skipped.
C1_UpdateOutcome ==
    (call.op = "update" /\ call.first <= call.last) =>
        LET U == call.before
            f == call.first
            l == call.last
        IN  /\ call.ret \in {"False", "RuntimeWarning", "True"}
            /\ (call.ret = "False") <=> (l < U)
            /\ (call.ret = "RuntimeWarning") <=> (l >= U /\ f > U + 1)
            /\ (call.ret = "True") <=> (l >= U /\ f <= U + 1)
            /\ (f = U + 1) => (call.ret = "True")
            /\ (f = U + 2) => (call.ret = "RuntimeWarning")
            /\ (l = U - 1) => (call.ret = "False")

C1_Witness ==
    /\ call.op = "update"
    /\ call.first = call.before + 2
    /\ call.ret = "RuntimeWarning"

\* C2: last_update_id never decreases across an update call; after an applied
\* call it is the update's last_update_id, after any other call it is what it
\* was, and after construction it is the snapshot's: it always equals the
\* last_update_id of the snapshot or of the most recently applied update.
C2_LastUpdateIdMonotonic ==
    /\ call.op = "__init__" => last_update_id = call.last
    /\ call.op = "update" =>
        /\ last_update_id >= call.before
        /\ (call.ret = "True") => (last_update_id = call.last)
        /\ (call.ret # "True") => (last_update_id = call.before)

C2_Witness ==
    /\ call.op = "update"
    /\ call.ret = "True"
    /\ last_update_id > call.before

\* C3: an update call that signals a gap leaves bids, asks and last_update_id
\* exactly as they were before the call.
C3_GapLeavesBookUnchanged ==
    [][(call'.op = "update" /\ call'.ret = "RuntimeWarning")
        => (bids' = bids /\ asks' = asks /\ last_update_id' = last_update_id)]_vars

C3_Witness ==
    /\ call.op = "update"
    /\ call.ret = "RuntimeWarning"
    /\ call.first > last_update_id + 1
    /\ Len(bids) > 0
    /\ Len(asks) > 0

\* C4: an update call that skips a stale update returns False and leaves bids,
\* asks and last_update_id exactly as they were before the call.
C4_StaleLeavesBookUnchanged ==
    [][(call'.op = "update" /\ call'.last < last_update_id)
        => /\ call'.ret = "False"
           /\ bids' = bids
           /\ asks' = asks
           /\ last_update_id' = last_update_id]_vars

C4_Witness ==
    /\ call.op = "update"
    /\ call.ret = "False"
    /\ call.last < last_update_id
    /\ Len(bids) > 0
    /\ Len(asks) > 0

\* C5: in every state of a book neither side holds a level of quantity 0 and
\* neither side holds two levels of one price.
C5_NoZeroNoDuplicate ==
    \A lv \in {bids, asks} :
        /\ \A k \in 1..Len(lv) : lv[k].quantity # 0
        /\ \A j, k \in 1..Len(lv) : (j # k) => (lv[j].price # lv[k].price)

C5_Witness ==
    /\ call.op = "update"
    /\ call.ret = "True"
    /\ Len(bids) = 2
    /\ Len(asks) = 1

\* C6: for every n from 1 to the resident count, best_bids(n) is strictly
\* descending in price and starts at the highest resident bid, and
\* best_asks(n) is strictly ascending and starts at the lowest resident ask.
C6_SlicesOrdered ==
    /\ \A n \in 1..Len(bids) :
        LET s == best_bids(self, n)
        IN  /\ Len(s) >= 1
            /\ StrictlyDescending(s)
            /\ \A p \in PriceSet(bids) : s[1].price >= p
    /\ \A n \in 1..Len(asks) :
        LET s == best_asks(self, n)
        IN  /\ Len(s) >= 1
            /\ StrictlyAscending(s)
            /\ \A p \in PriceSet(asks) : s[1].price <= p

C6_Witness ==
    /\ call.op = "update"
    /\ call.ret = "True"
    /\ Len(bids) = 2
    /\ Len(asks) = 2

\* C7: for every n >= 0, best_bids(n) yields exactly min(n, resident bids)
\* levels, the n highest bids, and best_asks(n) exactly min(n, resident asks)
\* levels, the n lowest asks.
C7_SliceCounts ==
    \A n \in 0..MaxArg :
        /\ Len(best_bids(self, n)) = Min2(n, Len(bids))
        /\ ItemSet(best_bids(self, n))
             = UNION {RankedFromTop(bids, i) : i \in 1..n}
        /\ Len(best_asks(self, n)) = Min2(n, Len(asks))
        /\ ItemSet(best_asks(self, n))
             = UNION {RankedFromBottom(asks, i) : i \in 1..n}

\* C8: best_bid(i) and best_ask(i) fail with an out-of-range error, and give
\* no level, for every i below 1 or above the resident count of the side.
C8_OutOfRangeFails ==
    \A i \in Args :
        /\ (i < 1 \/ i > Len(bids)) =>
              /\ best_bid(self, i).raised = "IndexError"
              /\ best_bid(self, i).value = NoLevel
        /\ (i < 1 \/ i > Len(asks)) =>
              /\ best_ask(self, i).raised = "IndexError"
              /\ best_ask(self, i).value = NoLevel

\* C9: for 1 <= i <= resident count, best_bid(i) is the i-th highest resident
\* bid and best_ask(i) the i-th lowest resident ask, and each is the i-th
\* element of best_bids(n) / best_asks(n) for every n >= i.
C9_RankedAccess ==
    /\ \A i \in 1..Len(bids) :
        /\ best_bid(self, i).raised = ""
        /\ RankedFromTop(bids, i) = {best_bid(self, i).value}
        /\ \A n \in i..MaxArg :
            /\ Len(best_bids(self, n)) >= i
            /\ best_bids(self, n)[i] = best_bid(self, i).value
    /\ \A i \in 1..Len(asks) :
        /\ best_ask(self, i).raised = ""
        /\ RankedFromBottom(asks, i) = {best_ask(self, i).value}
        /\ \A n \in i..MaxArg :
            /\ Len(best_asks(self, n)) >= i
            /\ best_asks(self, n)[i] = best_ask(self, i).value

C9_Witness ==
    /\ call.op = "update"
    /\ call.ret = "True"
    /\ Len(bids) = 2
    /\ Len(asks) = 2
    /\ bids[1].quantity # bids[2].quantity

\* C10: merge of a single level of quantity 0 leaves the container as it was
\* when no entry is resident at that price, and otherwise removes exactly the
\* entry at that price and leaves the entry at every other price as it was.
C10_MergeZeroQuantity ==
    (/\ merged.op = "merge"
     /\ Len(merged.entries) = 1
     /\ merged.entries[1].quantity = 0) =>
        LET p == merged.entries[1].price
        IN  IF p \notin PriceSet(merged.before)
            THEN levels = merged.before
            ELSE /\ p \notin PriceSet(levels)
                 /\ Len(levels) = Len(merged.before) - 1
                 /\ ItemSet(levels) = {e \in ItemSet(merged.before) : e.price # p}
                 /\ StrictlyAscending(levels)

C10_Witness ==
    /\ merged.op = "merge"
    /\ Len(merged.entries) = 1
    /\ merged.entries[1].quantity = 0
    /\ merged.entries[1].price \in PriceSet(merged.before)
    /\ Len(merged.before) >= 3

\* The last entry of a list at price p, and the list's extreme prices.
LastAt(list, p) ==
    LET at == {k \in 1..Len(list) : list[k].price = p}
    IN  list[CHOOSE k \in at : \A j \in at : j <= k]

HighestPrice(list) == CHOOSE p \in PriceSet(list) : \A q \in PriceSet(list) : q <= p

LowestPrice(list) == CHOOSE p \in PriceSet(list) : \A q \in PriceSet(list) : q >= p

At(lv, p) == {e \in ItemSet(lv) : e.price = p}

NoZero(list) == \A k \in 1..Len(list) : list[k].quantity # 0

\* C11: after merge(entries), at every price that occurs in entries the last
\* entry for that price decides (resident with its quantity if non-zero,
\* absent if zero); at every other price the entry is as before the call.
C11_LastEntryDecides ==
    merged.op = "merge" =>
        \A p \in 1..MaxKey :
            IF p \in PriceSet(merged.entries)
            THEN LET e == LastAt(merged.entries, p)
                 IN  IF e.quantity # 0
                     THEN At(levels, p) = {e}
                     ELSE At(levels, p) = {}
            ELSE At(levels, p) = At(merged.before, p)

C11_Witness ==
    /\ merged.op = "merge"
    /\ Len(merged.entries) = 2
    /\ merged.entries[1].price = merged.entries[2].price
    /\ merged.entries[1].quantity # 0
    /\ merged.entries[2].quantity = 0
    /\ At(merged.before, merged.entries[1].price) # {}
    /\ Len(levels) >= 1

C20_RedeliveryIdempotent ==
    \A u \in PartialUpdate :
        LET once == update(self, u)
        IN  (once.ret = "True") =>
                LET twice == update(once.book, u)
                IN  /\ twice.ret # "RuntimeWarning"
                    /\ twice.book = once.book

C20_Witness ==
    /\ call.op = "update"
    /\ call.ret = "True"
    /\ call.last = call.before
    /\ call.first <= call.last
    /\ Len(bids) >= 1
    /\ Len(asks) >= 1

\* C18: a book fed a contiguous stream whose first update starts at or before
\* the id after the snapshot's never signals a gap; it skips exactly the
\* updates ending before the snapshot's id, and once it has applied an update
\* it skips none.
C18_ContiguousStreamNeverGaps ==
    call.op = "update" =>
        /\ call.ret # "RuntimeWarning"
        /\ (call.ret = "False") <=> (call.last < stream.snapshot_id)
        /\ (call.ret = "True") <=> (call.last >= stream.snapshot_id)
        /\ (call.ret = "False") => ~stream.applied

C18_Witness ==
    /\ call.op = "update"
    /\ call.ret = "True"
    /\ call.first = call.before + 1
    /\ call.before > stream.snapshot_id
    /\ stream.snapshot_id > 0

\* The length of a book's export history, 0 while it has none.
HistoryLen(export, b) == IF b \in DOMAIN export THEN export_len(export[b]) ELSE 0

History(export, b) == IF b \in DOMAIN export THEN export[b] ELSE NewExportData

Gapped(b) == b \in DOMAIN routed.outcomes /\ routed.outcomes[b].ret = "RuntimeWarning"

\* C13: a book that signals a gap is out of the registry when the routing pass
\* ends; a book out of the registry is never back in it, is given no later
\* update, and gets no further export record.
C13_GappedBookRetired ==
    [][/\ DOMAIN routed'.outcomes = DOMAIN orderbooks
       /\ DOMAIN orderbooks' \subseteq DOMAIN orderbooks
       /\ \A b \in DOMAIN orderbooks :
            (routed'.outcomes[b].ret = "RuntimeWarning") <=> (b \notin DOMAIN orderbooks')
       /\ \A b \in BookIds \ DOMAIN orderbooks :
            /\ b \notin DOMAIN routed'.outcomes
            /\ History(export_data', b) = History(export_data, b)]_vars

C13_Witness ==
    /\ processed = 2
    /\ DOMAIN routed.outcomes = {2}
    /\ routed.outcomes[2].ret = "True"
    /\ DOMAIN orderbooks = {2}

\* A step changes no book but the one whose worker made the call.
C14_Frame ==
    \A b \in BookIds : (b \notin DOMAIN routed'.outcomes) => (orderbooks'[b] = orderbooks[b])

\* One call on each book, in either order: the same books at the end and the
\* same outcome of each call as when it is made first.
C14_Commute ==
    \A after1 \in {[u \in DriverUpdate |-> advance(orderbooks, 1, u)]},
       after2 \in {[u \in DriverUpdate |-> advance(orderbooks, 2, u)]},
       ret1 \in {[u \in DriverUpdate |-> update(orderbooks[1], u).ret]},
       ret2 \in {[u \in DriverUpdate |-> update(orderbooks[2], u).ret]} :
        \A u1 \in DriverUpdate, u2 \in DriverUpdate :
            /\ advance(after1[u1], 2, u2) = advance(after2[u2], 1, u1)
            /\ update(after1[u1][2], u2).ret = ret2[u2]
            /\ update(after2[u2][1], u1).ret = ret1[u1]

C15_RoutedToEveryBook ==
    [][/\ DOMAIN routed'.outcomes = DOMAIN orderbooks
       /\ \A b \in DOMAIN orderbooks :
            LET alone == update(orderbooks[b], routed'.update)
            IN  /\ routed'.outcomes[b].ret = alone.ret
                /\ (alone.ret # "RuntimeWarning") => (orderbooks'[b] = alone.book)]_vars

C15_Witness ==
    /\ routed.op = "route"
    /\ DOMAIN routed.outcomes = {1, 2}
    /\ routed.outcomes[1].ret = "RuntimeWarning"
    /\ routed.outcomes[2].ret = "True"

\* The record the driver exports for a book: its best ExportDepth levels.
SliceOf(book) ==
    [bids10      |-> prices_of(best_bids(book, ExportDepth)),
     bids10_size |-> quantities_of(best_bids(book, ExportDepth)),
     asks10      |-> prices_of(best_asks(book, ExportDepth)),
     asks10_size |-> quantities_of(best_asks(book, ExportDepth))]

RecordAt(data, k) ==
    [bids10 |-> data.bids10[k], bids10_size |-> data.bids10_size[k],
     asks10 |-> data.asks10[k], asks10_size |-> data.asks10_size[k]]

Lockstep(data) ==
    /\ Len(data.asks10) = Len(data.bids10)
    /\ Len(data.bids10_size) = Len(data.bids10)
    /\ Len(data.asks10_size) = Len(data.bids10)

\* What one routing pass does to the history of each book in the registry.
C16_Step ==
    \A b \in DOMAIN orderbooks :
        LET old == History(export_data, b)
            new == History(export_data', b)
        IN  IF routed'.outcomes[b].ret = "True"
            THEN /\ Lockstep(new)
                 /\ export_len(new) = export_len(old) + 1
                 /\ \A k \in 1..export_len(old) : RecordAt(new, k) = RecordAt(old, k)
                 /\ RecordAt(new, export_len(new)) = SliceOf(orderbooks'[b])
            ELSE new = old

\* C16: no history holds a record at the start; a routing pass appends to a
\* book's history exactly one record, the slice of the book as the update
\* left it, if the book applied the update, and leaves the history as it was
\* otherwise.
C16_ExportPerAppliedUpdate ==
    /\ \A b \in BookIds : HistoryLen(export_data, b) = 0
    /\ [][C16_Step]_vars

C16_Witness ==
    /\ processed = 2
    /\ DOMAIN routed.outcomes = {1, 2}
    /\ routed.outcomes[1].ret = "True"
    /\ HistoryLen(export_data, 1) = 2
    /\ RecordAt(export_data[1], 1) # RecordAt(export_data[1], 2)
    /\ HistoryLen(export_data, 2) = 0

\* C17: a gap signal names as expected the book's last_update_id + 1 at the
\* call and as received the update's first_update_id, and received > expected.
C17_GapSignalIds ==
    routed.op = "route" =>
        \A b \in DOMAIN routed.outcomes :
            Gapped(b) =>
                /\ routed.outcomes[b].expected = routed.outcomes[b].before + 1
                /\ routed.outcomes[b].received = routed.update.first_update_id
                /\ routed.outcomes[b].received > routed.outcomes[b].expected

C17_Witness ==
    /\ routed.op = "route"
    /\ Gapped(2)
    /\ routed.outcomes[2].expected = 2
    /\ routed.outcomes[2].received = 3

\* C19: when a routing pass ends, every book in the registry has
\* last_update_id >= the update's last_update_id: equal if it applied the
\* update, greater if it skipped it; the books that signalled a gap are out.
C19_SurvivorsNotBehind ==
    routed.op = "route" =>
        /\ \A b \in DOMAIN orderbooks :
            /\ b \in DOMAIN routed.outcomes
            /\ orderbooks[b].last_update_id >= routed.update.last_update_id
            /\ (routed.outcomes[b].ret = "True")
                  => (orderbooks[b].last_update_id = routed.update.last_update_id)
            /\ (routed.outcomes[b].ret = "False")
                  => (orderbooks[b].last_update_id > routed.update.last_update_id)
        /\ \A b \in DOMAIN routed.outcomes : Gapped(b) => (b \notin DOMAIN orderbooks)

C19_Witness ==
    /\ routed.op = "route"
    /\ DOMAIN orderbooks = {1, 2}
    /\ routed.outcomes[1].ret = "True"
    /\ routed.outcomes[2].ret = "False"
    /\ routed.update.last_update_id > routed.update.first_update_id

=============================================================================
